---- MODULE Spec2Model ----
(***************************************************************************)
(* URL shortener backend (src/server.js): the Express handlers              *)
(* POST /api/shorten, GET /:shortCode, GET /api/admin/urls and             *)
(* GET /api/admin/stats running concurrently against one MongoDB           *)
(* collection of Url documents (schema at the end of server.js).           *)
(*                                                                         *)
(* Each handler is an async function: it runs without interruption up to   *)
(* its next await, the awaited store operation is performed atomically by  *)
(* the store, and the handler's continuation runs after it.  One action of *)
(* this module is one store operation together with the synchronous code   *)
(* that follows it up to the next await (or up to the response).           *)
(*                                                                         *)
(* Strings that the code converts (the originalUrl, trimmed by the schema  *)
(* and parsed by new URL) are sequences of one-character strings.          *)
(***************************************************************************)
EXTENDS Integers, Sequences, FiniteSets, TLC

(* ------------------------------ bounds ---------------------------------- *)

\* Number of request slots: requests that can be in flight at the same time.
NumReq == 2

\* Number of requests started over a run (caps clicks and the store's size).
MaxRequests == 4

\* The clock runs from 0 to MaxTime.
MaxTime == 1

(* ------------------------------ values ---------------------------------- *)

Slots == 1..NumReq

\* The candidates shortid.generate() can return.
Codes == {"c1", "c2"}

\* Request bodies' originalUrl values: missing/empty, blank, no scheme,
\* two distinct URLs, and one of them with surrounding whitespace.
UrlInputs ==
    { <<>>,
      <<" ">>,
      <<"a">>,
      <<"a", ":">>,
      <<" ", "a", ":">>,
      <<"b", ":">> }

\* lastAccessed of a document that was never resolved (default: null).
null == -1

IsSpace(ch) == ch = " "

IsAlpha(ch) == ch \in {"a", "b"}

RECURSIVE TrimLeft(_)
TrimLeft(s) ==
    IF s # <<>> /\ IsSpace(Head(s)) THEN TrimLeft(Tail(s)) ELSE s

RECURSIVE TrimRight(_)
TrimRight(s) ==
    IF s # <<>> /\ IsSpace(s[Len(s)])
    THEN TrimRight(SubSeq(s, 1, Len(s) - 1))
    ELSE s

\* Schema option trim: true, a setter that mongoose applies when a document
\* is constructed and when a query filter on the path is cast.
Trim(s) == TrimRight(TrimLeft(s))

\* Index of the first character of s that is not a scheme character,
\* Len(s) + 1 when there is none.
RECURSIVE SchemeEnd(_, _)
SchemeEnd(s, i) ==
    IF i <= Len(s) /\ IsAlpha(s[i]) THEN SchemeEnd(s, i + 1) ELSE i

\* A validator that accepts every string.
isValidUrlAny(string) == TRUE

\* new URL(string) without a base: leading and trailing spaces are stripped,
\* and the rest must start with a scheme (letters) followed by ":".
isValidUrl(string) ==
    LET t == Trim(string)
        e == SchemeEnd(t, 1)
    IN  /\ t # <<>>
        /\ IsAlpha(t[1])
        /\ e <= Len(t)
        /\ t[e] = ":"

(* ------------------------------ state ----------------------------------- *)

VARIABLES
    store,       \* the urls collection, in insertion order; _id is the index
    now,         \* the clock read by Date.now / new Date()
    pc,          \* per slot: where the request's handler is
    originalUrl, \* per slot: req.body.originalUrl of a shorten request
    shortCode,   \* per slot: the candidate (shorten) or req.params.shortCode
    url,         \* per slot: the handler's document `url`
    totalUrls,   \* per slot: the count the stats handler has read
    resp,        \* the response sent last, by whichever request finished last
    started,     \* number of requests started
    arrived,     \* per slot: clock value when its resolve request arrived
    returned,    \* history of shorten: <<originalUrl sent, shortCode answered, status>>
    resolved,    \* history: per code, number of redirects answered
    lastResolve, \* history: per code, arrival and answer time of the last redirect
    outages,     \* history: kinds of store operation that failed for want of the store
    seen         \* history: per statistics request between its two reads, the
                 \*   <<count, click sum>> of each state the store was in since
                 \*   the first read

vars == << store, now, pc, originalUrl, shortCode, url, totalUrls, resp,
           started, arrived, returned, resolved, lastResolve, outages, seen >>

NoDoc ==
    [ id |-> 0, originalUrl |-> <<>>, shortCode |-> "", clicks |-> 0,
      createdAt |-> 0, lastAccessed |-> null ]

NoResp ==
    [ status |-> 0, error |-> "", originalUrl |-> <<>>, shortCode |-> "",
      location |-> <<>>, totalUrls |-> 0, totalClicks |-> 0, urls |-> <<>>,
      log |-> "" ]

ErrorResp(status, error) ==
    [ NoResp EXCEPT !.status = status, !.error = error ]

\* A catch block: console.error(log, error) and
\* res.status(500).json({ error: 'Server error' }).
ServerError(log) ==
    [ NoResp EXCEPT !.status = 500, !.error = "Server error", !.log = log ]

\* An answer that is sent with 201 whatever the handler passes.
UrlRespCreated(status, doc) ==
    [ NoResp EXCEPT !.status = 201,
                    !.originalUrl = doc.originalUrl,
                    !.shortCode = doc.shortCode ]

\* res.json({ originalUrl, shortUrl, shortCode }) with the given status.
UrlResp(status, doc) ==
    [ NoResp EXCEPT !.status = status,
                    !.originalUrl = doc.originalUrl,
                    !.shortCode = doc.shortCode ]

\* res.redirect(url.originalUrl)
RedirectResp(doc) ==
    [ NoResp EXCEPT !.status = 302, !.location = doc.originalUrl ]

\* res.json({ totalUrls, totalClicks: totalClicks[0]?.total || 0 }), where
\* the aggregation's result is a sequence of at most one group.
StatsResp(count, groups) ==
    [ NoResp EXCEPT !.status = 200,
                    !.totalUrls = count,
                    !.totalClicks = IF groups = <<>> THEN 0 ELSE groups[1].total ]

\* res.json(urlsWithFullData)
ListResp(docs) ==
    [ NoResp EXCEPT !.status = 200, !.urls = docs ]

Idle(p) == pc[p] = "idle"

Init ==
    /\ store = <<>>
    /\ now = 0
    /\ pc = [p \in Slots |-> "idle"]
    /\ originalUrl = [p \in Slots |-> <<>>]
    /\ shortCode = [p \in Slots |-> ""]
    /\ url = [p \in Slots |-> NoDoc]
    /\ totalUrls = [p \in Slots |-> 0]
    /\ resp = NoResp
    /\ started = 0
    /\ arrived = [p \in Slots |-> 0]
    /\ returned = {}
    /\ resolved = [c \in Codes |-> 0]
    /\ lastResolve = [c \in Codes |-> [from |-> 0, to |-> 0]]
    /\ outages = {}
    /\ seen = [p \in Slots |-> {}]

(* ------------------------------ the store ------------------------------- *)

\* The document stored at index i, as a query returns it.
DocAt(i) ==
    [ id |-> i, originalUrl |-> store[i].originalUrl,
      shortCode |-> store[i].shortCode, clicks |-> store[i].clicks,
      createdAt |-> store[i].createdAt, lastAccessed |-> store[i].lastAccessed ]

\* The first of the matching indexes, 0 when there is none.
FirstIndex(hits) ==
    IF hits = {} THEN 0 ELSE CHOOSE i \in hits : \A j \in hits : i <= j

\* A lookup whose filter value is compared as sent, without the trim setter.
FindOneByOriginalUrlAsSent(u) ==
    LET i == FirstIndex({ k \in 1..Len(store) : store[k].originalUrl = u })
    IN  IF i = 0 THEN NoDoc ELSE DocAt(i)

\* Url.findOne({ originalUrl }): the filter value is cast with the schema's
\* trim setter; the first matching document in insertion order, or none.
FindOneByOriginalUrl(u) ==
    LET i == FirstIndex({ k \in 1..Len(store) : store[k].originalUrl = Trim(u) })
    IN  IF i = 0 THEN NoDoc ELSE DocAt(i)

\* A lookup whose filter is empty: the first document of the collection.
FindOneAny(c) ==
    IF Len(store) = 0 THEN NoDoc ELSE DocAt(1)

\* Url.findOne({ shortCode })
FindOneByShortCode(c) ==
    LET i == FirstIndex({ k \in 1..Len(store) : store[k].shortCode = c })
    IN  IF i = 0 THEN NoDoc ELSE DocAt(i)

\* A collection whose shortCode index is not unique.
NoUniqueIndex(doc) == FALSE

\* The unique index on shortCode: an insert of doc raises a duplicate key
\* error when a stored document has its shortCode.
DuplicateKey(doc) ==
    \E i \in 1..Len(store) : store[i].shortCode = doc.shortCode

\* A document constructed from a schema without trim on originalUrl.
NewUrlAsSent(u, c) ==
    [ id |-> 0, originalUrl |-> u, shortCode |-> c, clicks |-> 0,
      createdAt |-> now, lastAccessed |-> null ]

\* new Url({ originalUrl, shortCode }): the schema trims originalUrl and
\* fills the defaults clicks 0, createdAt Date.now, lastAccessed null.
NewUrl(u, c) ==
    [ id |-> 0, originalUrl |-> Trim(u), shortCode |-> c, clicks |-> 0,
      createdAt |-> now, lastAccessed |-> null ]

\* A schema whose lastAccessed defaults to the time of creation.
StoredAccessed(doc) ==
    [ originalUrl |-> doc.originalUrl, shortCode |-> doc.shortCode,
      clicks |-> doc.clicks, createdAt |-> doc.createdAt,
      lastAccessed |-> doc.createdAt ]

\* The stored form of a new document.
Stored(doc) ==
    [ originalUrl |-> doc.originalUrl, shortCode |-> doc.shortCode,
      clicks |-> doc.clicks, createdAt |-> doc.createdAt,
      lastAccessed |-> doc.lastAccessed ]

\* An update whose filter is empty: it is applied to the first document.
SaveFirst(doc) ==
    [ store EXCEPT ![1].clicks = doc.clicks,
                   ![1].lastAccessed = doc.lastAccessed ]

\* url.save() of a loaded document whose clicks and lastAccessed were
\* assigned: the update sets both modified paths to the document's values.
SaveModified(doc) ==
    [ store EXCEPT ![doc.id].clicks = doc.clicks,
                   ![doc.id].lastAccessed = doc.lastAccessed ]

\* A visit that counts the click and leaves lastAccessed as loaded.
VisitNoTimestamp(doc) ==
    [ doc EXCEPT !.clicks = doc.clicks + 1 ]

\* A save that reports its failure after the write was applied.
FailedSaveApplied(doc) ==
    IF doc.id = 0 THEN Append(store, Stored(doc)) ELSE SaveModified(doc)

\* The collection after a url.save() that threw: the write of one document
\* is applied whole or not at all, and the catch blocks write nothing.
FailedSave(doc) == store

\* url.clicks += 1; url.lastAccessed = new Date()
Visit(doc) ==
    [ doc EXCEPT !.clicks = doc.clicks + 1, !.lastAccessed = now ]

\* A count with the filter { clicks: { $gt: 0 } }.
CountClicked == Cardinality({ i \in 1..Len(store) : store[i].clicks > 0 })

\* Url.countDocuments({})
CountDocuments == Len(store)

RECURSIVE SumClicks(_)
SumClicks(n) ==
    IF n = 0 THEN 0 ELSE store[n].clicks + SumClicks(n - 1)

\* An aggregation with { $sum: 1 }: it counts the documents.
AggregateCount ==
    IF Len(store) = 0 THEN <<>> ELSE << [ total |-> Len(store) ] >>

\* Url.aggregate([{ $group: { _id: null, total: { $sum: '$clicks' } } }]):
\* one group over all documents, and no group when there is no document.
Aggregate ==
    IF Len(store) = 0 THEN <<>> ELSE << [ total |-> SumClicks(Len(store)) ] >>

\* The number of documents and the sum of their clicks in the collection.
Totals == << Len(store), SumClicks(Len(store)) >>

\* A sort on createdAt in ascending order.
SortedAscending(order) ==
    \A i, j \in 1..Len(order) :
        i < j => store[order[i]].createdAt <= store[order[j]].createdAt

\* .sort({ createdAt: -1 }): the documents' ids in an order of descending
\* createdAt; documents of equal createdAt come in any order.
SortedDescending(order) ==
    \A i, j \in 1..Len(order) :
        i < j => store[order[i]].createdAt >= store[order[j]].createdAt

\* Url.find({}).sort(...).select(...): every document once, sorted.
FindAllSorted ==
    { order \in [1..Len(store) -> 1..Len(store)] :
        /\ \A i, j \in 1..Len(store) : order[i] = order[j] => i = j
        /\ SortedDescending(order) }

(* --------------------------- POST /api/shorten --------------------------- *)

\* The response r is sent and the handler returns: its locals are gone and
\* the slot is free for the next request.
Finish(p, r) ==
    /\ pc' = [pc EXCEPT ![p] = "idle"]
    /\ resp' = r
    /\ url' = [url EXCEPT ![p] = NoDoc]
    /\ totalUrls' = [totalUrls EXCEPT ![p] = 0]
    /\ originalUrl' = [originalUrl EXCEPT ![p] = <<>>]
    /\ shortCode' = [shortCode EXCEPT ![p] = ""]
    /\ arrived' = [arrived EXCEPT ![p] = 0]
    /\ seen' = [q \in Slots |->
                  IF q = p \/ pc[q] # "sum" THEN {} ELSE seen[q] \cup {Totals'}]

\* The free slot a new request is given: the first one.
FreeSlot(p) == Idle(p) /\ \A q \in Slots : Idle(q) => p <= q

\* The request arrives; the body is validated and the handler awaits
\* Url.findOne({ originalUrl }).
ShStart(p, u) ==
    /\ FreeSlot(p)
    /\ started < MaxRequests
    /\ started' = started + 1
    /\ UNCHANGED store
    /\ IF u = <<>>
       THEN Finish(p, ErrorResp(400, "URL is required"))
       ELSE IF ~isValidUrl(u)
       THEN Finish(p, ErrorResp(400, "Invalid URL format"))
       ELSE /\ pc' = [pc EXCEPT ![p] = "findUrl"]
            /\ originalUrl' = [originalUrl EXCEPT ![p] = u]
            /\ UNCHANGED << url, totalUrls, shortCode, resp, arrived, seen >>
    /\ UNCHANGED << now, returned, resolved, lastResolve, outages >>

\* findOne({ originalUrl }) answers: a found document is returned with 200;
\* otherwise the loop is entered and the first candidate generated.
ShFindUrl(p) ==
    /\ pc[p] = "findUrl"
    /\ UNCHANGED store
    /\ LET found == FindOneByOriginalUrl(originalUrl[p])
       IN  IF found # NoDoc
           THEN /\ Finish(p, UrlResp(200, found))
                /\ returned' = returned \cup {<<originalUrl[p], found.shortCode, 200>>}
           ELSE /\ \E c \in Codes : shortCode' = [shortCode EXCEPT ![p] = c]
                /\ pc' = [pc EXCEPT ![p] = "findCode"]
                /\ UNCHANGED << url, totalUrls, resp, returned, originalUrl, arrived,
                                seen >>
    /\ UNCHANGED << now, started, resolved, lastResolve, outages >>

\* findOne({ shortCode }) answers inside the while loop: a taken candidate
\* is replaced by a new one and looked up again; a free one ends the loop,
\* the document is constructed and the handler awaits url.save().
ShFindCode(p) ==
    /\ pc[p] = "findCode"
    /\ LET existingUrl == FindOneByShortCode(shortCode[p])
       IN  IF existingUrl # NoDoc
           THEN /\ \E c \in Codes : shortCode' = [shortCode EXCEPT ![p] = c]
                /\ UNCHANGED << pc, url >>
           ELSE /\ url' = [url EXCEPT ![p] = NewUrl(originalUrl[p], shortCode[p])]
                /\ pc' = [pc EXCEPT ![p] = "save"]
                /\ UNCHANGED shortCode
    /\ UNCHANGED << store, now, originalUrl, totalUrls, resp, started, arrived,
                    returned, resolved, lastResolve, outages, seen >>

\* url.save() of the new document: the store inserts it, or rejects it with
\* a duplicate key error, which the handler's catch answers with 500.
ShSave(p) ==
    /\ pc[p] = "save"
    /\ IF DuplicateKey(url[p])
       THEN /\ store' = FailedSave(url[p])
            /\ Finish(p, ServerError("Error creating short URL:"))
            /\ UNCHANGED returned
       ELSE /\ store' = Append(store, Stored(url[p]))
            /\ Finish(p, UrlResp(201, url[p]))
            /\ returned' = returned \cup {<<originalUrl[p], url[p].shortCode, 201>>}
    /\ UNCHANGED << now, started, resolved, lastResolve, outages >>

(* ---------------------------- GET /:shortCode ---------------------------- *)

\* The request arrives and the handler awaits Url.findOne({ shortCode }).
RsStart(p, c) ==
    /\ FreeSlot(p)
    /\ started < MaxRequests
    /\ started' = started + 1
    /\ arrived' = [arrived EXCEPT ![p] = now]
    /\ shortCode' = [shortCode EXCEPT ![p] = c]
    /\ pc' = [pc EXCEPT ![p] = "find"]
    /\ UNCHANGED << store, now, originalUrl, url, totalUrls, resp, returned,
                    resolved, lastResolve, outages, seen >>

\* findOne({ shortCode }) answers: none is answered with 404; a document has
\* its clicks and lastAccessed assigned and the handler awaits url.save().
RsFind(p) ==
    /\ pc[p] = "find"
    /\ UNCHANGED store
    /\ LET found == FindOneByShortCode(shortCode[p])
       IN  IF found = NoDoc
           THEN Finish(p, ErrorResp(404, "Short URL not found"))
           ELSE /\ url' = [url EXCEPT ![p] = Visit(found)]
                /\ pc' = [pc EXCEPT ![p] = "update"]
                /\ UNCHANGED << resp, originalUrl, shortCode, totalUrls, arrived,
                                seen >>
    /\ UNCHANGED << now, started, returned, resolved, lastResolve, outages >>

\* url.save() of the loaded document is applied and the redirect sent.
RsSave(p) ==
    /\ pc[p] = "update"
    /\ store' = SaveModified(url[p])
    /\ Finish(p, RedirectResp(url[p]))
    /\ resolved' = [resolved EXCEPT ![shortCode[p]] = @ + 1]
    /\ lastResolve' = [lastResolve EXCEPT ![shortCode[p]] =
                          [from |-> arrived[p], to |-> now]]
    /\ UNCHANGED << now, started, returned, outages >>

(* -------------------------- GET /api/admin/stats ------------------------- *)

\* The request arrives and the handler awaits Url.countDocuments({}).
StStart(p) ==
    /\ FreeSlot(p)
    /\ started < MaxRequests
    /\ started' = started + 1
    /\ pc' = [pc EXCEPT ![p] = "count"]
    /\ UNCHANGED << store, now, originalUrl, shortCode, url, totalUrls, resp,
                    arrived, returned, resolved, lastResolve, outages, seen >>

\* countDocuments answers and the handler awaits Url.aggregate([...]).
StCount(p) ==
    /\ pc[p] = "count"
    /\ totalUrls' = [totalUrls EXCEPT ![p] = CountDocuments]
    /\ pc' = [pc EXCEPT ![p] = "sum"]
    /\ seen' = [seen EXCEPT ![p] = {Totals}]
    /\ UNCHANGED << store, now, originalUrl, shortCode, url, resp, started,
                    arrived, returned, resolved, lastResolve, outages >>

\* aggregate answers and the statistics are sent.
StSum(p) ==
    /\ pc[p] = "sum"
    /\ UNCHANGED store
    /\ Finish(p, StatsResp(totalUrls[p], Aggregate))
    /\ UNCHANGED << now, started, returned, resolved, lastResolve, outages >>

(* -------------------------- GET /api/admin/urls -------------------------- *)

\* The request arrives and the handler awaits Url.find({}).sort().select().
LsStart(p) ==
    /\ FreeSlot(p)
    /\ started < MaxRequests
    /\ started' = started + 1
    /\ pc' = [pc EXCEPT ![p] = "list"]
    /\ UNCHANGED << store, now, originalUrl, shortCode, url, totalUrls, resp,
                    arrived, returned, resolved, lastResolve, outages, seen >>

\* find answers; the documents are mapped in the order found and sent.
LsFind(p) ==
    /\ pc[p] = "list"
    /\ UNCHANGED store
    /\ \E order \in FindAllSorted :
          Finish(p, ListResp([i \in 1..Len(store) |-> DocAt(order[i])]))
    /\ UNCHANGED << now, started, returned, resolved, lastResolve, outages >>

(* ------------------------- the store is unavailable ---------------------- *)

\* The message the handler's catch block logs.
CatchLog(p) ==
    IF pc[p] \in {"findUrl", "findCode", "save"} THEN "Error creating short URL:"
    ELSE IF pc[p] \in {"find", "update"} THEN "Error redirecting:"
    ELSE IF pc[p] = "list" THEN "Error fetching URLs:"
    ELSE "Error fetching stats:"

\* An awaited read (findOne, find, countDocuments, aggregate) rejects and
\* the handler's catch block answers 500.
ReadFails(p) ==
    /\ pc[p] \in {"findUrl", "findCode", "find", "count", "sum", "list"}
    /\ UNCHANGED store
    /\ Finish(p, ServerError(CatchLog(p)))
    /\ outages' = outages \cup {"read"}
    /\ UNCHANGED << now, started, returned, resolved, lastResolve >>

\* An awaited url.save() rejects and the handler's catch block answers 500.
SaveFails(p) ==
    /\ pc[p] \in {"save", "update"}
    /\ store' = FailedSave(url[p])
    /\ Finish(p, ServerError(CatchLog(p)))
    /\ outages' = outages \cup {IF pc[p] = "save" THEN "insert" ELSE "update"}
    /\ UNCHANGED << now, started, returned, resolved, lastResolve >>

(* ------------------------------- the clock ------------------------------- *)

Tick ==
    /\ now < MaxTime
    /\ now' = now + 1
    /\ UNCHANGED << store, pc, originalUrl, shortCode, url, totalUrls, resp,
                    started, arrived, returned, resolved, lastResolve, outages,
                    seen >>

(* --------------------------- specifications ------------------------------ *)

Step(p) ==
    \/ ShFindUrl(p)
    \/ ShFindCode(p)
    \/ ShSave(p)
    \/ RsFind(p)
    \/ RsSave(p)
    \/ StCount(p)
    \/ StSum(p)
    \/ LsFind(p)

Next ==
    \/ \E p \in Slots, u \in UrlInputs : ShStart(p, u)
    \/ \E p \in Slots, c \in Codes : RsStart(p, c)
    \/ \E p \in Slots : StStart(p)
    \/ \E p \in Slots : LsStart(p)
    \/ \E p \in Slots : Step(p)
    \/ Tick

Spec == Init /\ [][Next]_vars

\* The handlers of the requests in flight are resumed by the event loop
\* whenever their store operation has answered.
FairSpec == Spec /\ \A p \in Slots : WF_vars(Step(p))

\* One request at a time: a request arrives only when no other is in flight.
Quiet == \A q \in Slots : Idle(q)

\* The same handlers against a store whose operations can fail.
FailNext ==
    \/ Next
    \/ \E p \in Slots : ReadFails(p)
    \/ \E p \in Slots : SaveFails(p)

FailSpec == Init /\ [][FailNext]_vars

SeqShStart(p, u) == Quiet /\ ShStart(p, u)

SeqRsStart(p, c) == Quiet /\ RsStart(p, c)

SeqStStart(p) == Quiet /\ StStart(p)

SeqLsStart(p) == Quiet /\ LsStart(p)

SeqNext ==
    \/ \E p \in Slots, u \in UrlInputs : SeqShStart(p, u)
    \/ \E p \in Slots, c \in Codes : SeqRsStart(p, c)
    \/ \E p \in Slots : SeqStStart(p)
    \/ \E p \in Slots : SeqLsStart(p)
    \/ \E p \in Slots : Step(p)
    \/ Tick

SeqSpec == Init /\ [][SeqNext]_vars

(* ------------------------------- claims ---------------------------------- *)

Records == 1..Len(store)

\* A resolve request for code c is in flight.
Resolving(c) ==
    \E p \in Slots : pc[p] \in {"find", "update"} /\ shortCode[p] = c

\* C1: under any interleaving of shorten requests the store holds at most
\* one record per originalUrl, and all shorten calls for the same URL are
\* answered with the same shortCode.
C1_OneRecordPerUrl ==
    /\ \A i, j \in Records :
          store[i].originalUrl = store[j].originalUrl => i = j
    /\ \A x, y \in returned : x[1] = y[1] => x[2] = y[2]

\* C2: once the concurrent resolve calls on a code have all completed, the
\* record's clicks equals the number of redirects answered for it (its value
\* 0 at creation plus one per completed call): no increment is lost.
C2_NoLostUpdate ==
    \A i \in Records :
        ~Resolving(store[i].shortCode)
            => store[i].clicks = resolved[store[i].shortCode]

\* C3: in every reachable state no two records of the store have the same
\* shortCode: an insert whose shortCode is taken is never committed.
C3_UniqueShortCode ==
    \A i, j \in Records : store[i].shortCode = store[j].shortCode => i = j

\* C3 witness: an insert was rejected because its shortCode was taken by a
\* concurrent request, and the store holds a record.
C3_Witness ==
    /\ resp.status = 500
    /\ Len(store) >= 1

\* C4: a duplicate shortCode at insert is retried with a new candidate and
\* is not surfaced: no shorten request is answered with a server error
\* after a single rejected insert.
C4_DuplicateNotSurfaced ==
    resp.status # 500

\* C5: shorten terminates even if every candidate the generator can return
\* is already in the store: a request inside the generation loop of an
\* exhausted store is eventually answered.
C5_TerminatesWhenExhausted ==
    \A p \in Slots :
        (pc[p] = "findCode" /\ \A c \in Codes : FindOneByShortCode(c) # NoDoc)
            ~> (pc[p] = "idle")

\* C6: the clicks of every record never decrease, in any step of any
\* execution.
C6_ClicksMonotonic ==
    [][\A i \in Records : store'[i].clicks >= store[i].clicks]_vars

\* C7: when requests run one after another, all shorten calls with the
\* identical URL are answered with the same shortCode, and the store holds
\* exactly one record for each URL that was answered.
C7_SequentialIdempotence ==
    /\ \A x, y \in returned : x[1] = y[1] => x[2] = y[2]
    /\ \A x \in returned :
          Cardinality({ i \in Records : store[i].originalUrl = Trim(x[1]) }) = 1

\* C7 witness: the same URL (sent with surrounding whitespace) was shortened
\* twice: the first call created the record, the second found it.
C7_Witness ==
    \E c \in Codes :
        /\ <<(<<" ", "a", ":">>), c, 201>> \in returned
        /\ <<(<<" ", "a", ":">>), c, 200>> \in returned

\* C8 (as stated): a resolve of a shortCode that a shorten(u) has returned
\* is answered with a redirect to u itself.
C8_RoundTripExact ==
    [][\A p \in Slots : \A x \in returned :
          (pc[p] \in {"find", "update"} /\ pc'[p] = "idle" /\ shortCode[p] = x[2])
              => (resp'.status = 302 /\ resp'.location = x[1])]_vars

\* C8 (amended): a resolve of a shortCode that a shorten(u) has returned,
\* completing at any later point, is answered with a redirect to u with its
\* surrounding whitespace removed.
C8_RoundTripTrimmed ==
    [][\A p \in Slots : \A x \in returned :
          (pc[p] \in {"find", "update"} /\ pc'[p] = "idle" /\ shortCode[p] = x[2])
              => (resp'.status = 302 /\ resp'.location = Trim(x[1]))]_vars

\* C8 witness: a URL sent with surrounding whitespace was shortened and its
\* shortCode then resolved to a redirect.
C8_Witness ==
    \E x \in returned :
        /\ x[1] = <<" ", "a", ":">>
        /\ resp.status = 302
        /\ resp.location = Trim(x[1])
        /\ resolved[x[2]] >= 1

\* C9: when requests run one after another, a record's clicks equals the
\* number of resolve calls answered for its code, and its lastAccessed is
\* the time of the last of them (null when there was none).
C9_SequentialClicks ==
    \A i \in Records :
        LET c == store[i].shortCode IN
        ~Resolving(c) =>
            /\ store[i].clicks = resolved[c]
            /\ IF resolved[c] = 0
               THEN store[i].lastAccessed = null
               ELSE /\ lastResolve[c].from <= store[i].lastAccessed
                    /\ store[i].lastAccessed <= lastResolve[c].to

\* C9 witness: a code was resolved twice, the second time at a later clock
\* value than the first.
C9_Witness ==
    \E i \in Records :
        /\ Quiet
        /\ store[i].clicks = 2
        /\ resolved[store[i].shortCode] = 2
        /\ lastResolve[store[i].shortCode].from = MaxTime
        /\ store[i].createdAt = 0

\* C10 (as stated): shorten calls on pairwise distinct URLs are answered
\* with pairwise distinct shortCodes.
C10_DistinctCodesExact ==
    \A x, y \in returned : x[1] # y[1] => x[2] # y[2]

\* C10 (amended): shorten calls on URLs that are pairwise distinct after
\* their surrounding whitespace is removed are answered with pairwise
\* distinct shortCodes.
C10_DistinctCodesTrimmed ==
    \A x, y \in returned : Trim(x[1]) # Trim(y[1]) => x[2] # y[2]

\* C10 witness: two different URLs were shortened.
C10_Witness ==
    \E x, y \in returned : Trim(x[1]) # Trim(y[1])

C12_RejectsBadUrl ==
    [][\A p \in Slots, u \in UrlInputs :
          ShStart(p, u) =>
              /\ u = <<>> =>
                    /\ resp'.status = 400
                    /\ resp'.error = "URL is required"
                    /\ pc'[p] = "idle"
                    /\ store' = store
              /\ u \in {<<" ">>, <<"a">>} =>
                    /\ resp'.status = 400
                    /\ resp'.error = "Invalid URL format"
                    /\ pc'[p] = "idle"
                    /\ store' = store]_vars

\* C12 witness: an unparseable URL was rejected while the store holds a
\* record.
C12_Witness ==
    /\ resp.status = 400
    /\ resp.error = "Invalid URL format"
    /\ Len(store) >= 1

\* C13: when requests run one after another, the statistics answered are
\* the number of records in the store and the sum of their clicks (0 for
\* the empty store), and answering changes no record.
C13_StatsTotals ==
    [][\A p \in Slots :
          (pc[p] = "sum" /\ pc'[p] = "idle") =>
              /\ resp'.status = 200
              /\ resp'.totalUrls = Len(store)
              /\ resp'.totalClicks = SumClicks(Len(store))
              /\ store' = store]_vars

\* C13 witness: statistics of two records, one of them resolved once.
C13_Witness ==
    /\ resp.status = 200
    /\ resp.totalUrls = 2
    /\ resp.totalClicks = 1

\* C14: in every step no record is deleted, and every record keeps its
\* shortCode, originalUrl and createdAt; its clicks or lastAccessed change
\* only in a step that ends a resolve request for its own code, so no
\* shorten step changes them; and a shorten request that finds its URL in
\* the store is answered without any change to the store.
C14_RecordFrame ==
    [][ /\ Len(store') >= Len(store)
        /\ \A i \in Records :
              /\ store'[i].shortCode = store[i].shortCode
              /\ store'[i].originalUrl = store[i].originalUrl
              /\ store'[i].createdAt = store[i].createdAt
              /\ ( \/ store'[i].clicks # store[i].clicks
                    \/ store'[i].lastAccessed # store[i].lastAccessed )
                    => \E p \in Slots :
                          /\ pc[p] = "update"
                          /\ pc'[p] = "idle"
                          /\ shortCode[p] = store[i].shortCode
        /\ \A p \in Slots :
              (pc[p] = "findUrl" /\ pc'[p] = "idle") => store' = store ]_vars

\* C14 witness: two records, one of them resolved, and a shorten request
\* for a URL of the store was answered from the store.
C14_Witness ==
    /\ Len(store) = 2
    /\ \E i \in Records : store[i].clicks >= 1
    /\ resp.status = 200
    /\ resp.shortCode # ""

\* C15: a record enters the store with clicks 0 and lastAccessed null, and
\* in every state a record's lastAccessed is null exactly when its clicks
\* is 0, which is exactly when no resolve of its code has been answered
\* with a redirect.
C15_LastAccessedIffClicked ==
    [][ /\ \A i \in 1..Len(store') :
              /\ (store'[i].lastAccessed = null) <=> (store'[i].clicks = 0)
              /\ (store'[i].lastAccessed = null)
                    <=> (resolved'[store'[i].shortCode] = 0)
        /\ Len(store') > Len(store) =>
              /\ store'[Len(store')].clicks = 0
              /\ store'[Len(store')].lastAccessed = null ]_vars

\* C15 witness: a record that was never resolved next to one that was.
C15_Witness ==
    \E i, j \in Records :
        /\ store[i].clicks = 0 /\ store[i].lastAccessed = null
        /\ store[j].clicks >= 1 /\ store[j].lastAccessed # null

C17_ListAllSorted ==
    [][\A p \in Slots :
          (pc[p] = "list" /\ pc'[p] = "idle") =>
              /\ resp'.status = 200
              /\ Len(resp'.urls) = Len(store)
              /\ \A i \in Records :
                    \E k \in 1..Len(resp'.urls) : resp'.urls[k] = DocAt(i)
              /\ \A k, l \in 1..Len(resp'.urls) :
                    /\ resp'.urls[k].id = resp'.urls[l].id => k = l
                    /\ k < l => resp'.urls[k].createdAt >= resp'.urls[l].createdAt
              /\ store' = store]_vars

\* C17 witness: a list of two records, the newer one first.
C17_Witness ==
    /\ Len(resp.urls) = 2
    /\ resp.urls[1].createdAt > resp.urls[2].createdAt

\* C18: every request that was started is eventually answered, when every
\* store call of a handler in flight returns.
C18_EveryRequestAnswered ==
    \A p \in Slots : (pc[p] # "idle") ~> (pc[p] = "idle")

\* C19: a shorten request is answered 201 exactly when its own step
\* inserted a record; a request whose lookup finds the URL is answered 200
\* and inserts nothing; and in every state the number of 201 answers equals
\* the number of records.
C19_CreatedIffInserted ==
    [][ /\ \A p \in Slots :
              (pc[p] \in {"findUrl", "save"} /\ pc'[p] = "idle") =>
                  /\ (resp'.status = 201) <=> (Len(store') = Len(store) + 1)
                  /\ pc[p] = "findUrl" => (resp'.status = 200 /\ store' = store)
        /\ Cardinality({ x \in returned' : x[3] = 201 }) = Len(store') ]_vars

\* C19 witness: a URL was answered 201 by the request that inserted it and
\* 200 by a later request that found it.
C19_Witness ==
    \E x, y \in returned : x[3] = 201 /\ y[3] = 200 /\ x[2] = y[2]

\* C20 as claimed: the pair a stats request answers is the count and the
\* click sum of one state the store was in between the request's first read
\* and its answer.
C20_ConsistentSnapshot ==
    [][\A p \in Slots :
          (pc[p] = "sum" /\ pc'[p] = "idle") =>
              << resp'.totalUrls, resp'.totalClicks >> \in seen[p]]_vars

\* C20 as amended: each number is exact for its own read. totalUrls is the
\* record count at the first read (the least count since, as the store only
\* grows), totalClicks is the click sum at the second read, and the pair is
\* a state of the store when no write was committed between the two reads.
C20_EachReadExact ==
    [][\A p \in Slots :
          (pc[p] = "sum" /\ pc'[p] = "idle") =>
              /\ \E x \in seen[p] :
                    /\ x[1] = resp'.totalUrls
                    /\ \A y \in seen[p] : x[1] <= y[1]
              /\ resp'.totalClicks = SumClicks(Len(store))
              /\ Cardinality(seen[p]) = 1 =>
                    << resp'.totalUrls, resp'.totalClicks >> \in seen[p]]_vars

\* C20 witness: a stats request counted the empty store, a record was
\* inserted and resolved, and the request answered 0 URLs with 1 click.
C20_Witness ==
    /\ resp.status = 200
    /\ resp.totalUrls = 0
    /\ resp.totalClicks = 1

====
